---- MODULE Spec2Model ----
(***************************************************************************)
(* A model of SimpleVector<Type> (src/simple-vector/simple_vector.h).      *)
(*                                                                         *)
(* Type is instantiated with a small integer type: Type{} is 0 and a move  *)
(* of a Type leaves the source slot as it was.  Buffers live in a heap of  *)
(* numbered blocks so that ownership, sharing and release are visible;     *)
(* ArrayPtr<Type> (array_ptr.h) is a pointer into that heap.               *)
(* Every method of the class is an operator from a world (objects, heap,   *)
(* fault, whether an exception is travelling up the call, and the slots    *)
(* the call has read and written) to a world; every action of the state    *)
(* machine is one call of a method from user code on one of the user's     *)
(* vectors.                                                                *)
(***************************************************************************)
EXTENDS Integers, Sequences, FiniteSets, TLC

\* ---------------------------------------------------------------- bounds
\* Largest value of Type used as an input (values are 0..MaxVal).
MaxVal == 1
\* Largest sum of the capacities of the user's vectors in a state.
MaxTotalCap == 4
\* Longest initializer_list a vector is constructed from.
MaxInitLen == 2

Vals == 0..MaxVal
\* Type{}
DefaultValue == 0
\* The user's vectors, and the temporaries of operator= and of the copy
\* constructor (the local `temp` of each).
VecOrder == <<"a", "b">>
Vecs == {VecOrder[k] : k \in 1..Len(VecOrder)}
TempAssign == "temp_assign"
TempCopy == "temp_copy"
Objs == Vecs \cup {TempAssign, TempCopy}
\* nullptr, and the addresses the allocator hands out.
Null == 0
BufIds == 1..(Cardinality(Vecs) + 1)
Sizes == 0..MaxTotalCap

VARIABLES vec, heap, fault, last

vars == <<vec, heap, fault, last>>

\* An object that is not constructed (or already destroyed).
NoObject == [alive |-> FALSE, size_ |-> 0, capacity_ |-> 0, data_ |-> Null]
\* A block the allocator does not have handed out.
FreeBlock == [live |-> FALSE, cells |-> <<>>]

Max(x, y) == IF x >= y THEN x ELSE y
Min(x, y) == IF x <= y THEN x ELSE y

\* nomem: the allocator has no memory left for the call; thrown: a
\* std::bad_alloc is travelling up the call; rd, wr: the slots <<block,
\* offset>> the call has read and written so far; junk: what a read of
\* memory that is not a slot of a live block gives during the call.
World == [vec |-> vec, heap |-> heap, fault |-> fault,
          nomem |-> FALSE, thrown |-> FALSE, rd |-> {}, wr |-> {},
          junk |-> DefaultValue]
\* The world of a call in which such a read gives g.
Junk(w, g) == [w EXCEPT !.junk = g]
\* The world of a call during which operator new[] fails.
NoMemory(w) == [w EXCEPT !.nomem = TRUE]

\* The first fault of a call is kept.
Fault(w, f) == IF w.fault = "none" THEN [w EXCEPT !.fault = f] ELSE w

\* ------------------------------------------------------------- ArrayPtr
\* new Type[size]{} : `size` value-initialised slots at the lowest free address.
FreeIds(w) == {b \in BufIds : ~w.heap[b].live}
LowestFree(w) == CHOOSE b \in FreeIds(w) : \A c \in FreeIds(w) : b <= c

\* ArrayPtr(size): a null pointer for size 0, else a fresh block, or
\* std::bad_alloc and no block.
ArrayPtrNew(w, size) ==
    IF size = 0 THEN [w |-> w, p |-> Null]
    ELSE IF w.nomem THEN [w |-> [w EXCEPT !.thrown = TRUE], p |-> Null]
    ELSE IF FreeIds(w) = {} THEN [w |-> Fault(w, "out_of_memory"), p |-> Null]
    ELSE LET b == LowestFree(w)
         IN [w |-> [w EXCEPT !.heap[b] =
                        [live |-> TRUE, cells |-> [k \in 1..size |-> DefaultValue]]],
             p |-> b]

\* ~ArrayPtr(): delete[] raw_ptr_.
ArrayPtrDelete(w, p) ==
    IF p = Null THEN w
    ELSE IF w.heap[p].live THEN [w EXCEPT !.heap[p] = FreeBlock]
    ELSE Fault(w, "double_free")

\* Whether slot `off` (0-based) of block p can be accessed.
ValidSlot(w, p, off) ==
    /\ p # Null
    /\ w.heap[p].live
    /\ off >= 0
    /\ off < Len(w.heap[p].cells)

\* *(p + off) read: the content of the slot, or whatever the memory holds
\* if there is no such slot (any more).
ReadSlot(w, p, off) ==
    IF ValidSlot(w, p, off) THEN w.heap[p].cells[off + 1] ELSE w.junk

\* *(p + off) = x.
WriteSlot(w, p, off, x) ==
    LET w1 == [w EXCEPT !.wr = @ \cup {<<p, off>>}]
    IN IF ValidSlot(w, p, off) THEN [w1 EXCEPT !.heap[p].cells[off + 1] = x]
       ELSE Fault(w1, "bad_write")

\* The read of *(p + off) as an access: its record, and its fault if any.
CheckRead(w, p, off) ==
    LET w1 == [w EXCEPT !.rd = @ \cup {<<p, off>>}]
    IN IF ValidSlot(w, p, off) THEN w1 ELSE Fault(w1, "bad_read")

\* An argument of type const Type& / Type&&: a value of the caller's own
\* (buf = Null), or a reference to slot `off` of block `buf`.
ByValue(x) == [buf |-> Null, off |-> 0, val |-> x]
ByRef(p, k) == [buf |-> p, off |-> k, val |-> DefaultValue]
ItemValue(w, item) ==
    IF item.buf = Null THEN item.val ELSE ReadSlot(w, item.buf, item.off)
ItemCheck(w, item) ==
    IF item.buf = Null THEN w ELSE CheckRead(w, item.buf, item.off)

\* ---------------------------------------------------------- <algorithm>
\* std::copy(sp + first, sp + lim, dp + dfirst), front to back.  With
\* std::make_move_iterator each element is moved, which for this Type
\* leaves the source slot as it was.
RECURSIVE StdCopy(_, _, _, _, _, _)
StdCopy(w, sp, first, lim, dp, dfirst) ==
    IF first >= lim THEN w
    ELSE StdCopy(WriteSlot(CheckRead(w, sp, first), dp, dfirst, ReadSlot(w, sp, first)),
                 sp, first + 1, lim, dp, dfirst + 1)

\* A copy_backward that takes the element at `lim` too.
RECURSIVE StdCopyBackwardInclusive(_, _, _, _, _, _)
StdCopyBackwardInclusive(w, sp, first, lim, dp, dlim) ==
    IF first > lim THEN w
    ELSE StdCopyBackwardInclusive(
             WriteSlot(CheckRead(w, sp, lim), dp, dlim, ReadSlot(w, sp, lim)),
             sp, first, lim - 1, dp, dlim - 1)

\* std::copy_backward(sp + first, sp + lim, dp + dlim), back to front.
RECURSIVE StdCopyBackward(_, _, _, _, _, _)
StdCopyBackward(w, sp, first, lim, dp, dlim) ==
    IF first >= lim THEN w
    ELSE StdCopyBackward(
             WriteSlot(CheckRead(w, sp, lim - 1), dp, dlim - 1, ReadSlot(w, sp, lim - 1)),
             sp, first, lim - 1, dp, dlim - 1)

\* std::fill(p + first, p + lim, value); std::generate with Type{} is the
\* same with value = Type{}.
RECURSIVE StdFill(_, _, _, _, _)
StdFill(w, p, first, lim, x) ==
    IF first >= lim THEN w
    ELSE StdFill(WriteSlot(w, p, first, x), p, first + 1, lim, x)

\* std::copy(init.begin(), init.end(), p + dfirst) from an initializer_list.
RECURSIVE StdCopyList(_, _, _, _)
StdCopyList(w, init, p, dfirst) ==
    IF init = <<>> THEN w
    ELSE StdCopyList(WriteSlot(w, p, dfirst, Head(init)), Tail(init), p, dfirst + 1)

\* ------------------------------------------------------- SimpleVector
\* SimpleVector() noexcept = default
CtorDefault(w, o) ==
    [w EXCEPT !.vec[o] = [alive |-> TRUE, size_ |-> 0, capacity_ |-> 0, data_ |-> Null]]

\* explicit SimpleVector(ReserveProxyObj reserve)
CtorReserve(w, o, cap) ==
    LET a == ArrayPtrNew(w, cap)
    IN IF a.w.thrown THEN a.w
       ELSE [a.w EXCEPT !.vec[o] =
                [alive |-> TRUE, size_ |-> 0, capacity_ |-> cap, data_ |-> a.p]]

\* A sized constructor that leaves the slots as the allocation made them.
CtorSizeValueNoFill(w, o, size, value) ==
    LET a == ArrayPtrNew(w, size)
    IN IF a.w.thrown THEN a.w
       ELSE [a.w EXCEPT !.vec[o] =
                [alive |-> TRUE, size_ |-> size, capacity_ |-> size, data_ |-> a.p]]

\* SimpleVector(size_t size, const Type& value)
CtorSizeValue(w, o, size, value) ==
    LET a == ArrayPtrNew(w, size)
        w1 == [a.w EXCEPT !.vec[o] =
                  [alive |-> TRUE, size_ |-> size, capacity_ |-> size, data_ |-> a.p]]
    IN IF a.w.thrown THEN a.w
       ELSE StdFill(w1, w1.vec[o].data_, 0, w1.vec[o].size_, ItemValue(w1, value))

\* explicit SimpleVector(size_t size)
CtorSize(w, o, size) == CtorSizeValue(w, o, size, ByValue(DefaultValue))

\* SimpleVector(std::initializer_list<Type> init)
CtorInitList(w, o, init) ==
    LET w1 == CtorSize(w, o, Len(init))
    IN IF w1.thrown THEN w1
       ELSE StdCopyList(w1, init, w1.vec[o].data_, 0)

\* ~SimpleVector(): the ArrayPtr member releases its block.
Dtor(w, o) ==
    [ArrayPtrDelete(w, w.vec[o].data_) EXCEPT !.vec[o] = NoObject]

\* ArrayPtr::swap of the data_ members of two objects: the raw pointers
\* change places.
ArrayPtrSwap(w, o, other) ==
    [w EXCEPT !.vec[o].data_ = w.vec[other].data_,
              !.vec[other].data_ = w.vec[o].data_]

\* ArrayPtr::Release of the data_ member of an object: the pointer is
\* given up without releasing the block.
ArrayPtrRelease(w, o) ==
    [w |-> [w EXCEPT !.vec[o].data_ = Null], p |-> w.vec[o].data_]

\* void swap(SimpleVector& other) noexcept
swap(w, o, other) ==
    LET w1 == [w EXCEPT !.vec[o].size_ = w.vec[other].size_,
                        !.vec[other].size_ = w.vec[o].size_]
        w2 == [w1 EXCEPT !.vec[o].capacity_ = w1.vec[other].capacity_,
                         !.vec[other].capacity_ = w1.vec[o].capacity_]
    IN ArrayPtrSwap(w2, o, other)

\* A copy that takes the other vector's pointer instead of copying its
\* elements.
CtorCopyShallow(w, o, other) ==
    [w EXCEPT !.vec[o] = [alive |-> TRUE,
                          size_ |-> w.vec[other].size_,
                          capacity_ |-> w.vec[other].size_,
                          data_ |-> w.vec[other].data_]]

\* A copy whose temporary is sized by the other vector's capacity.
CtorCopySizedByCapacity(w, o, other) ==
    LET w0 == CtorDefault(w, o)
        w1 == CtorSize(w0, TempCopy, w0.vec[other].capacity_)
        w2 == StdCopy(w1, w1.vec[other].data_, 0, w1.vec[other].size_,
                      w1.vec[TempCopy].data_, 0)
        w3 == swap(w2, o, TempCopy)
    IN IF w1.thrown THEN [w1 EXCEPT !.vec[o] = NoObject]
       ELSE Dtor(w3, TempCopy)

\* SimpleVector(const SimpleVector& other)
CtorCopy(w, o, other) ==
    LET w0 == CtorDefault(w, o)
        w1 == CtorSize(w0, TempCopy, w0.vec[other].size_)
        w2 == StdCopy(w1, w1.vec[other].data_, 0, w1.vec[other].size_,
                      w1.vec[TempCopy].data_, 0)
        w3 == swap(w2, o, TempCopy)
    IN \* an exception of temp's constructor ends the construction of o
       IF w1.thrown THEN [w1 EXCEPT !.vec[o] = NoObject]
       ELSE Dtor(w3, TempCopy)

\* A move that takes the buffer and the counters and leaves the source's
\* counters as they were.
CtorMoveKeepsCounters(w, o, other) ==
    LET r == ArrayPtrRelease(w, other)
    IN [r.w EXCEPT !.vec[o] = [alive |-> TRUE,
                               size_ |-> w.vec[other].size_,
                               capacity_ |-> w.vec[other].capacity_,
                               data_ |-> r.p]]

\* A move that copies the source's pointer (data_.Get()) and so leaves the
\* source pointing to the block too.
CtorMoveSharesBuffer(w, o, other) ==
    LET w1 == [w EXCEPT !.vec[o] =
                  [alive |-> TRUE, size_ |-> 0, capacity_ |-> 0,
                   data_ |-> w.vec[other].data_]]
        w2 == [w1 EXCEPT !.vec[o].size_ = w1.vec[other].size_,
                         !.vec[other].size_ = 0]
    IN [w2 EXCEPT !.vec[o].capacity_ = w2.vec[other].capacity_,
                  !.vec[other].capacity_ = 0]

\* SimpleVector(SimpleVector&& other)
CtorMove(w, o, other) ==
    LET r == ArrayPtrRelease(w, other)
        w1 == [r.w EXCEPT !.vec[o] =
                  [alive |-> TRUE, size_ |-> 0, capacity_ |-> 0, data_ |-> r.p]]
        w2 == [w1 EXCEPT !.vec[o].size_ = w1.vec[other].size_,
                         !.vec[other].size_ = 0]
    IN [w2 EXCEPT !.vec[o].capacity_ = w2.vec[other].capacity_,
                  !.vec[other].capacity_ = 0]

\* SimpleVector& operator=(const SimpleVector& rhs)
OpAssign(w, o, rhs) ==
    IF o # rhs
    THEN LET w1 == CtorCopy(w, TempAssign, rhs)
             w2 == swap(w1, o, TempAssign)
         IN IF w1.thrown THEN w1 ELSE Dtor(w2, TempAssign)
    ELSE w

GetSize(w, o) == w.vec[o].size_
GetCapacity(w, o) == w.vec[o].capacity_
IsEmpty(w, o) == w.vec[o].size_ = 0

\* Type& At(size_t index): the reference returned, or the exception.
NoRet == [kind |-> "none", buf |-> Null, off |-> 0]
Thrown == [kind |-> "out_of_range", buf |-> Null, off |-> 0]
BadAlloc == [kind |-> "bad_alloc", buf |-> Null, off |-> 0]
Ref(p, k) == [kind |-> "ref", buf |-> p, off |-> k]

\* An At that checks the index against the capacity.
AtChecksCapacity(w, o, index) ==
    IF index >= w.vec[o].capacity_
    THEN [w |-> w, ret |-> Thrown]
    ELSE [w |-> w, ret |-> Ref(w.vec[o].data_, index)]

At(w, o, index) ==
    IF index >= w.vec[o].size_
    THEN [w |-> w, ret |-> Thrown]
    ELSE [w |-> w, ret |-> Ref(w.vec[o].data_, index)]

\* v[index] = x through Type& operator[](size_t index)
IndexAssign(w, o, index, x) == WriteSlot(w, w.vec[o].data_, index, x)

\* A Clear that gives the buffer up as well (swap with an empty vector).
ClearReleases(w, o) ==
    [ArrayPtrDelete(w, w.vec[o].data_) EXCEPT
        !.vec[o] = [alive |-> TRUE, size_ |-> 0, capacity_ |-> 0, data_ |-> Null]]

\* void Clear() noexcept
Clear(w, o) == [w EXCEPT !.vec[o].size_ = 0]

\* An IncreaseCapacity that adopts the new block without moving the
\* elements into it.
IncreaseCapacityNoCopy(w, o, new_capacity) ==
    LET a == ArrayPtrNew(w, new_capacity)
        old == a.w.vec[o].data_
        w2 == [a.w EXCEPT !.vec[o].data_ = a.p]
        w3 == [w2 EXCEPT !.vec[o].capacity_ = new_capacity]
    IN IF a.w.thrown THEN a.w ELSE ArrayPtrDelete(w3, old)

\* An IncreaseCapacity that sets capacity_ before it allocates the new
\* block.
IncreaseCapacityCountsFirst(w, o, new_capacity) ==
    LET w0 == [w EXCEPT !.vec[o].capacity_ = new_capacity]
        a == ArrayPtrNew(w0, new_capacity)
        w1 == StdCopy(a.w, a.w.vec[o].data_, 0, a.w.vec[o].size_, a.p, 0)
        old == w1.vec[o].data_
        w2 == [w1 EXCEPT !.vec[o].data_ = a.p]
    IN IF a.w.thrown THEN a.w ELSE ArrayPtrDelete(w2, old)

\* void IncreaseCapacity(size_t new_capacity)
IncreaseCapacity(w, o, new_capacity) ==
    LET a == ArrayPtrNew(w, new_capacity)
        w1 == StdCopy(a.w, a.w.vec[o].data_, 0, a.w.vec[o].size_, a.p, 0)
        \* new_data.swap(data_): new_data now holds the old block
        old == w1.vec[o].data_
        w2 == [w1 EXCEPT !.vec[o].data_ = a.p]
        w3 == [w2 EXCEPT !.vec[o].capacity_ = new_capacity]
    IN IF a.w.thrown THEN a.w
       ELSE \* new_data goes out of scope
            ArrayPtrDelete(w3, old)

\* A Resize that grows within the capacity without writing Type{} into the
\* slots it exposes.
ResizeNoFill(w, o, new_size) ==
    IF new_size <= w.vec[o].size_
    THEN [w EXCEPT !.vec[o].size_ = new_size]
    ELSE LET w1 == IF new_size <= w.vec[o].capacity_
                   THEN w
                   ELSE IncreaseCapacity(w, o, Max(new_size, w.vec[o].capacity_ * 2))
         IN IF w1.thrown THEN w1 ELSE [w1 EXCEPT !.vec[o].size_ = new_size]

\* void Resize(size_t new_size)
Resize(w, o, new_size) ==
    IF new_size <= w.vec[o].size_
    THEN [w EXCEPT !.vec[o].size_ = new_size]
    ELSE LET w1 == IF new_size <= w.vec[o].capacity_
                   THEN StdFill(w, w.vec[o].data_, w.vec[o].size_,
                                w.vec[o].size_ + new_size - w.vec[o].size_, DefaultValue)
                   ELSE IncreaseCapacity(w, o, Max(new_size, w.vec[o].capacity_ * 2))
         IN IF w1.thrown THEN w1 ELSE [w1 EXCEPT !.vec[o].size_ = new_size]

\* A Reserve that reallocates to the requested capacity whatever the
\* current one is.
ReserveAlways(w, o, new_capacity) == IncreaseCapacity(w, o, new_capacity)

\* void Reserve(size_t new_capacity)
Reserve(w, o, new_capacity) ==
    IF new_capacity > w.vec[o].capacity_
    THEN IncreaseCapacity(w, o, new_capacity)
    ELSE w

\* A PushBack that grows by one slot instead of doubling.
PushBackExactFit(w, o, item) ==
    LET w1 == IF w.vec[o].size_ >= w.vec[o].capacity_
              THEN IncreaseCapacity(w, o, w.vec[o].size_ + 1)
              ELSE w
        w2 == WriteSlot(ItemCheck(w1, item), w1.vec[o].data_, w1.vec[o].size_,
                        ItemValue(w1, item))
    IN IF w1.thrown THEN w1 ELSE [w2 EXCEPT !.vec[o].size_ = w2.vec[o].size_ + 1]

\* void PushBack(const Type& item) / void PushBack(Type&& item)
PushBack(w, o, item) ==
    LET w1 == IF w.vec[o].size_ >= w.vec[o].capacity_
              THEN IncreaseCapacity(w, o, Max(w.vec[o].size_ + 1, w.vec[o].capacity_ * 2))
              ELSE w
        w2 == WriteSlot(ItemCheck(w1, item), w1.vec[o].data_, w1.vec[o].size_,
                        ItemValue(w1, item))
    IN IF w1.thrown THEN w1 ELSE [w2 EXCEPT !.vec[o].size_ = w2.vec[o].size_ + 1]

\* void PopBack() noexcept
PopBack(w, o) == [w EXCEPT !.vec[o].size_ = w.vec[o].size_ - 1]

\* An Insert whose in-place branch shifts front to back (std::copy instead
\* of std::copy_backward).
InsertShiftsForward(w, o, index, value) ==
    LET v == w.vec[o]
        w3 == IF v.size_ < v.capacity_
              THEN LET w1 == StdCopy(w, v.data_, index, v.size_, v.data_, index + 1)
                   IN WriteSlot(ItemCheck(w1, value), v.data_, index, ItemValue(w1, value))
              ELSE LET new_capacity == Max(v.size_ + 1, v.capacity_ * 2)
                       a == ArrayPtrNew(w, new_capacity)
                       w1 == StdCopy(a.w, v.data_, 0, index, a.p, 0)
                       w2 == WriteSlot(ItemCheck(w1, value), a.p, index,
                                       ItemValue(w1, value))
                       w4 == StdCopy(w2, v.data_, index, v.size_, a.p, index + 1)
                       w5 == [w4 EXCEPT !.vec[o].data_ = a.p,
                                        !.vec[o].capacity_ = new_capacity]
                   IN IF a.w.thrown THEN a.w ELSE ArrayPtrDelete(w5, v.data_)
        w6 == [w3 EXCEPT !.vec[o].size_ = w3.vec[o].size_ + 1]
    IN IF w3.thrown THEN [w |-> w3, ret |-> NoRet]
       ELSE [w |-> w6, ret |-> Ref(w6.vec[o].data_, index)]

\* An Insert whose reallocating branch does not move the elements after
\* the position into the new block.
InsertLosesTail(w, o, index, value) ==
    LET v == w.vec[o]
        w3 == IF v.size_ < v.capacity_
              THEN LET w1 == StdCopyBackward(w, v.data_, index, v.size_,
                                             v.data_, v.size_ + 1)
                   IN WriteSlot(ItemCheck(w1, value), v.data_, index, ItemValue(w1, value))
              ELSE LET new_capacity == Max(v.size_ + 1, v.capacity_ * 2)
                       a == ArrayPtrNew(w, new_capacity)
                       w1 == StdCopy(a.w, v.data_, 0, index, a.p, 0)
                       w2 == WriteSlot(ItemCheck(w1, value), a.p, index,
                                       ItemValue(w1, value))
                       w5 == [w2 EXCEPT !.vec[o].data_ = a.p,
                                        !.vec[o].capacity_ = new_capacity]
                   IN IF a.w.thrown THEN a.w ELSE ArrayPtrDelete(w5, v.data_)
        w6 == [w3 EXCEPT !.vec[o].size_ = w3.vec[o].size_ + 1]
    IN IF w3.thrown THEN [w |-> w3, ret |-> NoRet]
       ELSE [w |-> w6, ret |-> Ref(w6.vec[o].data_, index)]

\* Iterator Insert(ConstIterator pos, const Type& value) / (.., Type&& value),
\* with index = pos - begin()
Insert(w, o, index, value) ==
    LET v == w.vec[o]
        w3 == IF v.size_ < v.capacity_
              THEN LET w1 == StdCopyBackward(w, v.data_, index, v.size_,
                                             v.data_, v.size_ + 1)
                   IN WriteSlot(ItemCheck(w1, value), v.data_, index, ItemValue(w1, value))
              ELSE LET new_capacity == Max(v.size_ + 1, v.capacity_ * 2)
                       a == ArrayPtrNew(w, new_capacity)
                       w1 == StdCopy(a.w, v.data_, 0, index, a.p, 0)
                       w2 == WriteSlot(ItemCheck(w1, value), a.p, index,
                                       ItemValue(w1, value))
                       w4 == StdCopy(w2, v.data_, index, v.size_, a.p, index + 1)
                       \* new_data.swap(data_); capacity_ = new_capacity;
                       \* new_data goes out of scope with the old block
                       w5 == [w4 EXCEPT !.vec[o].data_ = a.p,
                                        !.vec[o].capacity_ = new_capacity]
                   IN IF a.w.thrown THEN a.w ELSE ArrayPtrDelete(w5, v.data_)
        w6 == [w3 EXCEPT !.vec[o].size_ = w3.vec[o].size_ + 1]
    IN IF w3.thrown THEN [w |-> w3, ret |-> NoRet]
       ELSE [w |-> w6, ret |-> Ref(w6.vec[o].data_, index)]

\* An Erase that shifts from the erased position instead of from the one
\* after it.
EraseShiftsFromIndex(w, o, index) ==
    LET v == w.vec[o]
        w1 == StdCopy(w, v.data_, index, v.size_, v.data_, index)
        w2 == [w1 EXCEPT !.vec[o].size_ = w1.vec[o].size_ - 1]
    IN [w |-> w2, ret |-> Ref(w2.vec[o].data_, index)]

\* Iterator Erase(ConstIterator pos), with index = pos - begin()
Erase(w, o, index) ==
    LET v == w.vec[o]
        w1 == StdCopy(w, v.data_, index + 1, v.size_, v.data_, index)
        w2 == [w1 EXCEPT !.vec[o].size_ = w1.vec[o].size_ - 1]
    IN [w |-> w2, ret |-> Ref(w2.vec[o].data_, index)]

\* std::equal(lp, lp + n, rp)
StdEqual(w, lp, n, rp) ==
    \A k \in 0..(n - 1) : ReadSlot(w, lp, k) = ReadSlot(w, rp, k)

\* An operator== that compares the capacities and every slot of the blocks.
OpEqWholeBuffer(w, lhs, rhs) ==
    IF GetCapacity(w, lhs) # GetCapacity(w, rhs) THEN FALSE
    ELSE StdEqual(w, w.vec[lhs].data_, w.vec[lhs].capacity_, w.vec[rhs].data_)

\* bool operator==(const SimpleVector& lhs, const SimpleVector& rhs)
OpEq(w, lhs, rhs) ==
    IF GetSize(w, lhs) # GetSize(w, rhs) THEN FALSE
    ELSE StdEqual(w, w.vec[lhs].data_, w.vec[lhs].size_, w.vec[rhs].data_)

\* bool operator!=(const SimpleVector& lhs, const SimpleVector& rhs)
OpNe(w, lhs, rhs) == ~OpEq(w, lhs, rhs)

\* std::lexicographical_compare(lp + lfirst, lp + llim, rp + rfirst, rp + rlim)
RECURSIVE StdLexicographicalCompare(_, _, _, _, _, _, _)
StdLexicographicalCompare(w, lp, lfirst, llim, rp, rfirst, rlim) ==
    IF lfirst # llim /\ rfirst # rlim
    THEN IF ReadSlot(w, lp, lfirst) < ReadSlot(w, rp, rfirst) THEN TRUE
         ELSE IF ReadSlot(w, rp, rfirst) < ReadSlot(w, lp, lfirst) THEN FALSE
         ELSE StdLexicographicalCompare(w, lp, lfirst + 1, llim, rp, rfirst + 1, rlim)
    ELSE lfirst = llim /\ rfirst # rlim

\* An operator< that puts the shorter vector first and compares the
\* elements only of vectors of one size.
OpLtShorterFirst(w, lhs, rhs) ==
    IF GetSize(w, lhs) # GetSize(w, rhs) THEN GetSize(w, lhs) < GetSize(w, rhs)
    ELSE StdLexicographicalCompare(w, w.vec[lhs].data_, 0, w.vec[lhs].size_,
                                   w.vec[rhs].data_, 0, w.vec[rhs].size_)

\* bool operator<(const SimpleVector& lhs, const SimpleVector& rhs)
OpLt(w, lhs, rhs) ==
    StdLexicographicalCompare(w, w.vec[lhs].data_, 0, w.vec[lhs].size_,
                              w.vec[rhs].data_, 0, w.vec[rhs].size_)

\* bool operator<=(const SimpleVector& lhs, const SimpleVector& rhs)
OpLe(w, lhs, rhs) == ~OpLt(w, rhs, lhs)

\* bool operator>(const SimpleVector& lhs, const SimpleVector& rhs)
OpGt(w, lhs, rhs) == OpLt(w, rhs, lhs)

\* bool operator>=(const SimpleVector& lhs, const SimpleVector& rhs)
OpGe(w, lhs, rhs) == ~OpLt(w, lhs, rhs)

\* ------------------------------------------------------ state machine
\* The logical sequence of an object: slots [0, size_) of its block.
Elems(w, o) == [k \in 1..w.vec[o].size_ |-> ReadSlot(w, w.vec[o].data_, k - 1)]

\* Every slot of an object's block, stale ones included.
Slots(w, o) == IF w.vec[o].data_ = Null THEN <<>> ELSE w.heap[w.vec[o].data_].cells

RECURSIVE SumCap(_, _)
SumCap(w, S) ==
    IF S = {} THEN 0
    ELSE LET o == CHOOSE x \in S : TRUE
         IN w.vec[o].capacity_ + SumCap(w, S \ {o})
TotalCap(w) == SumCap(w, Vecs)

\* The literal sequences a vector is constructed from.
InitLists == UNION {[1..n -> Vals] : n \in 0..MaxInitLen}

\* The user's program is between two calls (last.op = "none") or has just
\* made one.  History: the call just made (its name, the vector it was made
\* on, the other vector involved, its index or size argument, its value
\* argument, what it returned) and the world before it; the literal of a
\* construction from a literal; for an Erase at the position an Insert just
\* returned, the logical sequence and the capacity before that Insert; for a
\* default construction and the PushBack calls that directly follow it, the
\* values pushed so far; for a call that directly follows a copy, that copy;
\* for a comparison, what each of the six operators returned; the slots the
\* call read and wrote, under the addresses of the world before the call.
NoVec == "-"
NoWorld == [vec |-> <<>>, heap |-> <<>>, fault |-> "none",
            nomem |-> FALSE, thrown |-> FALSE, rd |-> {}, wr |-> {},
            junk |-> DefaultValue]
NoUndo == [elems |-> <<>>, capacity |-> 0]
NotFresh == [fresh |-> FALSE, vals |-> <<>>]
Fresh(s) == [fresh |-> TRUE, vals |-> s]
NoCopy == [op |-> "none", v |-> NoVec, u |-> NoVec]
NoCmp == [eq |-> FALSE, ne |-> FALSE, lt |-> FALSE, le |-> FALSE,
          gt |-> FALSE, ge |-> FALSE]
CopyOps == {"CopyConstruct", "CopyAssign"}
NoCall ==
    [op |-> "none", v |-> NoVec, u |-> NoVec, i |-> 0, x |-> 0,
     ret |-> [kind |-> "none", buf |-> Null, off |-> 0], w |-> NoWorld,
     init |-> <<>>, undo |-> NoUndo, pushed |-> NotFresh, after |-> NoCopy,
     cmp |-> NoCmp, rd |-> {}, wr |-> {}]
Call(op, v, u, i, x, ret) ==
    [op |-> op, v |-> v, u |-> u, i |-> i, x |-> x, ret |-> ret,
     w |-> World, init |-> <<>>, undo |-> NoUndo, pushed |-> NotFresh,
     cmp |-> NoCmp, rd |-> {}, wr |-> {},
     after |-> IF last.op \in CopyOps
               THEN [op |-> last.op, v |-> last.v, u |-> last.u]
               ELSE NoCopy]

\* Addresses are opaque to the program, so a state is kept up to a renaming
\* of the blocks: the blocks the vectors point to come first, in the order
\* of the vectors, then the other blocks in the order of their addresses.
RECURSIVE Ascending(_)
Ascending(S) ==
    IF S = {} THEN <<>>
    ELSE LET m == CHOOSE b \in S : \A c \in S : b <= c
         IN <<m>> \o Ascending(S \ {m})

RECURSIVE PointedTo(_, _)
PointedTo(w, k) ==
    IF k > Len(VecOrder) THEN <<>>
    ELSE LET rest == PointedTo(w, k + 1)
             p == w.vec[VecOrder[k]].data_
         IN IF p = Null THEN rest
            ELSE <<p>> \o SelectSeq(rest, LAMBDA q : q # p)

BlockOrder(w) ==
    LET first == PointedTo(w, 1)
    IN first \o Ascending(BufIds \ {first[k] : k \in 1..Len(first)})

\* The new address of block p under an order of the blocks.
Renamed(order, p) ==
    IF p = Null THEN Null
    ELSE CHOOSE k \in BufIds : order[k] = p

\* The state after a call: the world it left, and the history, in which a
\* call that threw std::bad_alloc returned nothing else.
Commit(w, l) ==
    /\ TotalCap(w) <= MaxTotalCap
    /\ LET order == BlockOrder(w)
       IN /\ vec' = [o \in Objs |-> [w.vec[o] EXCEPT !.data_ = Renamed(order, @)]]
          /\ heap' = [b \in BufIds |-> w.heap[order[b]]]
          /\ last' = [l EXCEPT !.ret = IF w.thrown THEN BadAlloc
                                        ELSE [@ EXCEPT !.buf = Renamed(order, @)],
                               !.rd = w.rd,
                               !.wr = w.wr]
    /\ fault' = w.fault

\* The program is between two calls.
Ready == fault = "none" /\ last.op = "none"
\* The program is between two calls or has just made a copy of another
\* vector (and goes on to write an element of the copy or of the original).
ReadyToMutate ==
    /\ fault = "none"
    /\ \/ last.op = "none"
       \/ last.op \in CopyOps /\ last.v # last.u
\* The program is between two calls, or has just default-constructed v or
\* pushed into it right after that.
ReadyToPush(v) ==
    /\ fault = "none"
    /\ last.op \in ({"none"} \cup
                    (IF last.v = v /\ last.pushed.fresh THEN {last.op} ELSE {}))
Alive(v) == vec[v].alive

Init ==
    /\ vec = [o \in Objs |-> NoObject]
    /\ heap = [b \in BufIds |-> FreeBlock]
    /\ fault = "none"
    /\ last = NoCall

DefaultConstruct ==
    /\ Ready
    /\ \E v \in Vecs :
        /\ ~Alive(v)
        /\ Commit(CtorDefault(World, v),
                  [Call("DefaultConstruct", v, NoVec, 0, 0, NoRet)
                      EXCEPT !.pushed = Fresh(<<>>)])

ReserveConstruct ==
    /\ Ready
    /\ \E v \in Vecs, n \in Sizes :
        /\ ~Alive(v)
        /\ Commit(CtorReserve(World, v, n),
                  Call("ReserveConstruct", v, NoVec, n, 0, NoRet))

SizeConstruct ==
    /\ Ready
    /\ \E v \in Vecs, n \in Sizes :
        /\ ~Alive(v)
        /\ Commit(CtorSize(World, v, n),
                  Call("SizeConstruct", v, NoVec, n, 0, NoRet))

SizeValueConstruct ==
    /\ Ready
    /\ \E v \in Vecs, n \in Sizes, x \in Vals :
        /\ ~Alive(v)
        /\ Commit(CtorSizeValue(World, v, n, ByValue(x)),
                  Call("SizeValueConstruct", v, NoVec, n, x, NoRet))

InitListConstruct ==
    /\ Ready
    /\ \E v \in Vecs, init \in InitLists :
        /\ ~Alive(v)
        /\ Commit(CtorInitList(World, v, init),
                  [Call("InitListConstruct", v, NoVec, Len(init), 0, NoRet)
                      EXCEPT !.init = init])

CopyConstruct ==
    /\ Ready
    /\ \E v \in Vecs, u \in Vecs :
        /\ ~Alive(v) /\ Alive(u)
        /\ Commit(CtorCopy(World, v, u),
                  Call("CopyConstruct", v, u, 0, 0, NoRet))

MoveConstruct ==
    /\ Ready
    /\ \E v \in Vecs, u \in Vecs :
        /\ ~Alive(v) /\ Alive(u)
        /\ Commit(CtorMove(World, v, u),
                  Call("MoveConstruct", v, u, 0, 0, NoRet))

CopyAssign ==
    /\ Ready
    /\ \E v \in Vecs, u \in Vecs :
        /\ Alive(v) /\ Alive(u)
        /\ Commit(OpAssign(World, v, u),
                  Call("CopyAssign", v, u, 0, 0, NoRet))

\* v = std::move(u) on two constructed vectors.  The class declares no
\* operator=(SimpleVector&&), and none is implicit in a class that declares
\* its copy operations and its move constructor, so the call binds to
\* operator=(const SimpleVector&).
MoveAssign ==
    /\ Ready
    /\ \E v \in Vecs, u \in Vecs :
        /\ Alive(v) /\ Alive(u)
        /\ Commit(OpAssign(World, v, u),
                  Call("MoveAssign", v, u, 0, 0, NoRet))

Destroy ==
    /\ Ready
    /\ \E v \in Vecs :
        /\ Alive(v)
        /\ Commit(Dtor(World, v),
                  Call("Destroy", v, NoVec, 0, 0, NoRet))

CallAt ==
    /\ Ready
    /\ \E v \in Vecs, i \in Sizes :
        /\ Alive(v)
        /\ i <= vec[v].capacity_
        /\ LET r == At(World, v, i)
           IN Commit(r.w, Call("At", v, NoVec, i, 0, r.ret))

CallIndexAssign ==
    /\ ReadyToMutate
    /\ \E v \in Vecs, i \in Sizes, x \in Vals :
        /\ Alive(v)
        /\ i < vec[v].size_
        /\ Commit(IndexAssign(World, v, i, x),
                  Call("IndexAssign", v, NoVec, i, x, NoRet))

CallClear ==
    /\ Ready
    /\ \E v \in Vecs :
        /\ Alive(v)
        /\ Commit(Clear(World, v),
                  Call("Clear", v, NoVec, 0, 0, NoRet))

CallResize ==
    /\ Ready
    /\ \E v \in Vecs, n \in Sizes :
        /\ Alive(v)
        /\ Commit(Resize(World, v, n),
                  Call("Resize", v, NoVec, n, 0, NoRet))

CallReserve ==
    /\ Ready
    /\ \E v \in Vecs, n \in Sizes :
        /\ Alive(v)
        /\ Commit(Reserve(World, v, n),
                  Call("Reserve", v, NoVec, n, 0, NoRet))

CallPushBack ==
    \E v \in Vecs, x \in Vals :
        /\ ReadyToPush(v)
        /\ Alive(v)
        /\ Commit(PushBack(World, v, ByValue(x)),
                  [Call("PushBack", v, NoVec, 0, x, NoRet)
                      EXCEPT !.pushed = IF last.v = v /\ last.pushed.fresh
                                        THEN Fresh(Append(last.pushed.vals, x))
                                        ELSE NotFresh])

CallPopBack ==
    /\ Ready
    /\ \E v \in Vecs :
        /\ Alive(v)
        /\ vec[v].size_ > 0
        /\ Commit(PopBack(World, v),
                  Call("PopBack", v, NoVec, 0, 0, NoRet))

CallInsert ==
    /\ Ready
    /\ \E v \in Vecs, i \in Sizes, x \in Vals :
        /\ Alive(v)
        /\ i <= vec[v].size_
        /\ LET r == Insert(World, v, i, ByValue(x))
           IN Commit(r.w, Call("Insert", v, NoVec, i, x, r.ret))

CallErase ==
    /\ Ready
    /\ \E v \in Vecs, i \in Sizes :
        /\ Alive(v)
        /\ i < vec[v].size_
        /\ LET r == Erase(World, v, i)
           IN Commit(r.w, Call("Erase", v, NoVec, i, 0, r.ret))

\* v.Erase(v.Insert(pos, x)): the Erase directly after an Insert, at the
\* position the Insert returned.
CallEraseInserted ==
    /\ fault = "none"
    /\ last.op = "Insert"
    /\ LET r == Erase(World, last.v, last.ret.off)
       IN Commit(r.w,
                 [Call("EraseInserted", last.v, NoVec, last.ret.off, 0, r.ret)
                     EXCEPT !.undo = [elems |-> Elems(last.w, last.v),
                                      capacity |-> last.w.vec[last.v].capacity_]])

CallSwap ==
    /\ Ready
    /\ \E v \in Vecs, u \in Vecs :
        /\ Alive(v) /\ Alive(u)
        /\ Commit(swap(World, v, u),
                  Call("swap", v, u, 0, 0, NoRet))

\* v.PushBack(v[j]): the argument is a reference to an element of v.
CallPushBackAliased ==
    /\ Ready
    /\ \E v \in Vecs, j \in Sizes, g \in Vals :
        /\ Alive(v)
        /\ j < vec[v].size_
        /\ Commit(PushBack(Junk(World, g), v, ByRef(vec[v].data_, j)),
                  Call("PushBackAliased", v, NoVec, vec[v].size_,
                       ReadSlot(World, vec[v].data_, j), NoRet))

\* v.Insert(v.begin() + i, v[j]): the argument is a reference to an element
\* of v.
CallInsertAliased ==
    /\ Ready
    /\ \E v \in Vecs, i \in Sizes, j \in Sizes, g \in Vals :
        /\ Alive(v)
        /\ i <= vec[v].size_
        /\ j < vec[v].size_
        /\ LET r == Insert(Junk(World, g), v, i, ByRef(vec[v].data_, j))
           IN Commit(r.w, Call("InsertAliased", v, NoVec, i,
                               ReadSlot(World, vec[v].data_, j), r.ret))

\* v == u, v != u, v < u, v <= u, v > u and v >= u.
CallCompare ==
    /\ Ready
    /\ \E v \in Vecs, u \in Vecs :
        /\ Alive(v) /\ Alive(u)
        /\ Commit(World,
                  [Call("Compare", v, u, 0, 0, NoRet)
                      EXCEPT !.cmp = [eq |-> OpEq(World, v, u),
                                      ne |-> OpNe(World, v, u),
                                      lt |-> OpLt(World, v, u),
                                      le |-> OpLe(World, v, u),
                                      gt |-> OpGt(World, v, u),
                                      ge |-> OpGe(World, v, u)]])

\* The calls during which operator new[] throws std::bad_alloc: a call
\* that allocates, made when no memory is left.
PushBackNoMemory ==
    /\ Ready
    /\ \E v \in Vecs, x \in Vals :
        /\ Alive(v)
        /\ LET w == PushBack(NoMemory(World), v, ByValue(x))
           IN /\ w.thrown
              /\ Commit(w, Call("PushBackNoMemory", v, NoVec, 0, x, NoRet))

InsertNoMemory ==
    /\ Ready
    /\ \E v \in Vecs, i \in Sizes, x \in Vals :
        /\ Alive(v)
        /\ i <= vec[v].size_
        /\ LET r == Insert(NoMemory(World), v, i, ByValue(x))
           IN /\ r.w.thrown
              /\ Commit(r.w, Call("InsertNoMemory", v, NoVec, i, x, r.ret))

ResizeNoMemory ==
    /\ Ready
    /\ \E v \in Vecs, n \in Sizes :
        /\ Alive(v)
        /\ LET w == Resize(NoMemory(World), v, n)
           IN /\ w.thrown
              /\ Commit(w, Call("ResizeNoMemory", v, NoVec, n, 0, NoRet))

ReserveNoMemory ==
    /\ Ready
    /\ \E v \in Vecs, n \in Sizes :
        /\ Alive(v)
        /\ LET w == Reserve(NoMemory(World), v, n)
           IN /\ w.thrown
              /\ Commit(w, Call("ReserveNoMemory", v, NoVec, n, 0, NoRet))

CopyAssignNoMemory ==
    /\ Ready
    /\ \E v \in Vecs, u \in Vecs :
        /\ Alive(v) /\ Alive(u)
        /\ LET w == OpAssign(NoMemory(World), v, u)
           IN /\ w.thrown
              /\ Commit(w, Call("CopyAssignNoMemory", v, u, 0, 0, NoRet))

\* The call has returned and the program goes on to its next call.
Return ==
    /\ last.op # "none"
    /\ last' = NoCall
    /\ UNCHANGED <<vec, heap, fault>>

Next ==
    \/ DefaultConstruct
    \/ ReserveConstruct
    \/ SizeConstruct
    \/ SizeValueConstruct
    \/ InitListConstruct
    \/ CopyConstruct
    \/ MoveConstruct
    \/ CopyAssign
    \/ MoveAssign
    \/ Destroy
    \/ CallAt
    \/ CallIndexAssign
    \/ CallClear
    \/ CallResize
    \/ CallReserve
    \/ CallPushBack
    \/ CallPopBack
    \/ CallInsert
    \/ CallErase
    \/ CallEraseInserted
    \/ CallSwap
    \/ CallCompare
    \/ PushBackNoMemory
    \/ InsertNoMemory
    \/ ResizeNoMemory
    \/ ReserveNoMemory
    \/ CopyAssignNoMemory
    \/ Return

Spec == Init /\ [][Next]_vars

\* The program that also passes to PushBack and Insert references to
\* elements of the vector it calls them on.
NextAliased ==
    \/ Next
    \/ CallPushBackAliased
    \/ CallInsertAliased

SpecAliased == Init /\ [][NextAliased]_vars

\* ------------------------------------------------------------- claims
\* What the calls are meant to do, stated on sequences.
Take(s, n) == [k \in 1..n |-> s[k]]
Defaults(n) == [k \in 1..n |-> DefaultValue]
InsertAt(s, i, x) ==
    [k \in 1..(Len(s) + 1) |-> IF k <= i THEN s[k] ELSE IF k = i + 1 THEN x ELSE s[k - 1]]
RemoveAt(s, i) ==
    [k \in 1..(Len(s) - 1) |-> IF k <= i THEN s[k] ELSE s[k + 1]]
RECURSIVE PowerOfTwoFrom(_, _)
PowerOfTwoFrom(p, k) == IF p >= k THEN p ELSE PowerOfTwoFrom(2 * p, k)
\* The smallest power of two that is >= k.
Pow2Ceil(k) == PowerOfTwoFrom(1, k)

\* The vector of the last call before and after it.
Before == last.w.vec[last.v]
After == vec[last.v]
ElemsBefore == Elems(last.w, last.v)
ElemsAfter == Elems(World, last.v)

\* C1: every live vector has size <= capacity, in every state reachable
\* from the constructors by PushBack, PopBack, Insert, Erase, Resize,
\* Reserve, Clear, swap, copies and moves.
C1_SizeWithinCapacity ==
    \A o \in Objs : vec[o].alive => vec[o].size_ <= vec[o].capacity_

\* A Reserve of less than the size has just returned on a non-empty vector.
C1_Witness ==
    /\ last.op = "Reserve"
    /\ last.i < After.size_
    /\ After.size_ >= 2

\* C2: after k >= 1 PushBack calls in a row on a default-constructed vector
\* the size is k, the elements are the pushed values in push order and the
\* capacity is the smallest power of two >= k.
C2_PushBackSequence ==
    (last.pushed.fresh /\ Len(last.pushed.vals) >= 1) =>
        /\ After.size_ = Len(last.pushed.vals)
        /\ ElemsAfter = last.pushed.vals
        /\ After.capacity_ = Pow2Ceil(Len(last.pushed.vals))

\* Three values were pushed, differing ones among them, and the capacity
\* went 1, 2, 4.
C2_Witness ==
    /\ last.op = "PushBack"
    /\ last.pushed.fresh
    /\ Len(last.pushed.vals) = 3
    /\ last.pushed.vals[1] # last.pushed.vals[2]
    /\ After.capacity_ = 4

\* C3: Insert(begin + i, x) with 0 <= i <= size leaves s[0..i), x, s[i..size),
\* adds one to the size, returns the position of index i, which holds x, and
\* leaves the capacity alone if size < capacity held before the call and
\* makes it max(size + 1, capacity * 2) of the values before the call if not.
C3_Insert ==
    last.op = "Insert" =>
        /\ ElemsAfter = InsertAt(ElemsBefore, last.i, last.x)
        /\ After.size_ = Before.size_ + 1
        /\ last.ret = Ref(After.data_, last.i)
        /\ ReadSlot(World, last.ret.buf, last.ret.off) = last.x
        /\ After.capacity_ = IF Before.size_ < Before.capacity_
                             THEN Before.capacity_
                             ELSE Max(Before.size_ + 1, Before.capacity_ * 2)
        /\ fault = "none"

\* An Insert in the middle of a full vector of two differing elements.
C3_Witness ==
    /\ last.op = "Insert"
    /\ Before.size_ = Before.capacity_
    /\ Before.size_ = 2
    /\ last.i = 1
    /\ ElemsBefore[1] # ElemsBefore[2]

\* An Insert before the end of a vector with room left.
C3_WitnessInPlace ==
    /\ last.op = "Insert"
    /\ Before.size_ < Before.capacity_
    /\ Before.size_ >= 2
    /\ last.i = 0
    /\ ElemsBefore[1] # ElemsBefore[2]

\* C4: Erase(begin + i) with 0 <= i < size leaves s[0..i), s[i+1..size),
\* takes one from the size, leaves the capacity alone and returns the
\* position of index i, which is the new end exactly when the erased
\* element was the last one.
C4_Erase ==
    last.op \in {"Erase", "EraseInserted"} =>
        /\ ElemsAfter = RemoveAt(ElemsBefore, last.i)
        /\ After.size_ = Before.size_ - 1
        /\ After.capacity_ = Before.capacity_
        /\ last.ret = Ref(After.data_, last.i)
        /\ (last.ret.off = After.size_) <=> (last.i = Before.size_ - 1)
        /\ fault = "none"

\* An Erase of the first of three elements, differing ones among them.
C4_Witness ==
    /\ last.op = "Erase"
    /\ Before.size_ = 3
    /\ last.i = 0
    /\ ElemsBefore[2] # ElemsBefore[3]

\* C5: Insert(begin + i, x) followed by Erase(begin + i) gives back the size
\* and the logical sequence there were before the Insert (the capacity is
\* not smaller), whether or not the Insert reallocated.
C5_InsertEraseInverse ==
    last.op = "EraseInserted" =>
        /\ ElemsAfter = last.undo.elems
        /\ After.size_ = Len(last.undo.elems)
        /\ After.capacity_ >= last.undo.capacity
        /\ fault = "none"

\* The Insert was in the middle of a full vector of two differing elements.
C5_Witness ==
    /\ last.op = "EraseInserted"
    /\ last.undo.capacity = 2
    /\ Len(last.undo.elems) = 2
    /\ last.undo.elems[1] # last.undo.elems[2]
    /\ last.i = 1
    /\ After.capacity_ = 4

\* C6: Resize(n) leaves size n and the first min(n, old size) old elements
\* followed by n - old size default values when n > old size, whatever the
\* slots beyond the old size held; the capacity is unchanged when
\* n <= old capacity and max(n, old capacity * 2) when n > old capacity.
C6_Resize ==
    last.op = "Resize" =>
        /\ After.size_ = last.i
        /\ ElemsAfter = Take(ElemsBefore, Min(last.i, Before.size_))
                            \o Defaults(Max(last.i - Before.size_, 0))
        /\ After.capacity_ = IF last.i <= Before.capacity_
                             THEN Before.capacity_
                             ELSE Max(last.i, Before.capacity_ * 2)
        /\ fault = "none"

\* A Resize that grew a vector within its capacity over a slot that held a
\* stale value other than the default.
C6_Witness ==
    /\ last.op = "Resize"
    /\ Before.size_ >= 1
    /\ Before.size_ < last.i
    /\ last.i <= Before.capacity_
    /\ Slots(last.w, last.v)[Before.size_ + 1] # DefaultValue

\* A Resize beyond the capacity of a vector whose capacity doubled is less
\* than n, and one whose capacity doubled is more.
C6_WitnessGrow ==
    /\ last.op = "Resize"
    /\ Before.capacity_ >= 1
    /\ last.i > Before.capacity_
    /\ After.capacity_ > last.i

\* C7: Reserve(n) leaves the size and the logical sequence alone; the
\* capacity becomes n if n > capacity and is left alone if not.
C7_Reserve ==
    last.op = "Reserve" =>
        /\ After.size_ = Before.size_
        /\ ElemsAfter = ElemsBefore
        /\ After.capacity_ = IF last.i > Before.capacity_ THEN last.i ELSE Before.capacity_
        /\ After.capacity_ >= Before.capacity_
        /\ fault = "none"

\* A Reserve that reallocated a vector holding an element other than the
\* default.
C7_Witness ==
    /\ last.op = "Reserve"
    /\ last.i > Before.capacity_
    /\ Before.size_ >= 2
    /\ ElemsBefore[2] # DefaultValue

\* C8: At(index) throws exactly when index >= size, changing nothing, and
\* returns the element at that index if not; an index with
\* size <= index < capacity throws too.
C8_At ==
    last.op = "At" =>
        /\ (last.ret.kind = "out_of_range") <=> (last.i >= Before.size_)
        /\ vec = last.w.vec
        /\ heap = last.w.heap
        /\ fault = "none"
        /\ last.i < Before.size_ =>
               /\ last.ret.kind = "ref"
               /\ ValidSlot(World, last.ret.buf, last.ret.off)
               /\ ReadSlot(World, last.ret.buf, last.ret.off) = ElemsBefore[last.i + 1]

\* An At that threw for a slot between the size and the capacity of a
\* non-empty vector.
C8_Witness ==
    /\ last.op = "At"
    /\ last.ret.kind = "out_of_range"
    /\ Before.size_ >= 1
    /\ last.i >= Before.size_
    /\ last.i < Before.capacity_

\* An At that returned an element other than the default.
C8_WitnessInRange ==
    /\ last.op = "At"
    /\ last.ret.kind = "ref"
    /\ ReadSlot(World, last.ret.buf, last.ret.off) # DefaultValue

\* The calls that change a vector, and what it is for another vector to be
\* as it was before the call.
MutatorOps ==
    {"PushBack", "PopBack", "Insert", "Erase", "EraseInserted", "Resize",
     "Reserve", "Clear", "IndexAssign"}
SameVector(u) ==
    /\ vec[u].alive = last.w.vec[u].alive
    /\ vec[u].size_ = last.w.vec[u].size_
    /\ vec[u].capacity_ = last.w.vec[u].capacity_
    /\ Slots(World, u) = Slots(last.w, u)
\* C9: right after a copy construction or a copy assignment the copy
\* compares equal to the original, and a mutating call on one vector leaves
\* the size, the capacity and the slots of every other vector as they were.
C9_CopyIsolation ==
    /\ last.op \in CopyOps =>
           /\ OpEq(World, last.v, last.u)
           /\ ElemsAfter = Elems(last.w, last.u)
           /\ fault = "none"
    /\ last.op \in MutatorOps => \A u \in Vecs \ {last.v} : SameVector(u)

\* An element of a copy of a non-empty vector was written right after the
\* copy was made, and the copy now differs from the original.
C9_Witness ==
    /\ last.op = "IndexAssign"
    /\ last.after.op \in CopyOps
    /\ last.after.v # last.after.u
    /\ last.v = last.after.v
    /\ Elems(World, last.after.v) # Elems(World, last.after.u)

\* C10: a move construction gives the new vector the source's logical
\* sequence, size and capacity, and leaves the source with size 0,
\* capacity 0 and no buffer, so that a PushBack on it gives size 1 and
\* capacity 1.
C10_MoveConstruct ==
    last.op = "MoveConstruct" =>
        /\ ElemsAfter = Elems(last.w, last.u)
        /\ Slots(World, last.v) = Slots(last.w, last.u)
        /\ After.size_ = last.w.vec[last.u].size_
        /\ After.capacity_ = last.w.vec[last.u].capacity_
        /\ vec[last.u] = [alive |-> TRUE, size_ |-> 0, capacity_ |-> 0, data_ |-> Null]
        /\ fault = "none"
        /\ \A x \in Vals :
               LET w2 == PushBack(World, last.u, ByValue(x))
               IN /\ w2.vec[last.u].size_ = 1
                  /\ w2.vec[last.u].capacity_ = 1
                  /\ Elems(w2, last.u) = <<x>>
                  /\ w2.fault = "none"

\* A move from a vector with two differing elements and room left.
C10_Witness ==
    /\ last.op = "MoveConstruct"
    /\ After.size_ = 2
    /\ After.capacity_ > 2
    /\ ElemsAfter[1] # ElemsAfter[2]

\* C11: after moved = std::move(original) on two existing vectors, moved
\* holds the logical sequence original had before, and original has size 0
\* and capacity 0.
C11_MoveAssign ==
    (last.op = "MoveAssign" /\ last.v # last.u) =>
        /\ ElemsAfter = Elems(last.w, last.u)
        /\ vec[last.u].size_ = 0
        /\ vec[last.u].capacity_ = 0

\* The calls during which the allocation failed.
NoMemoryOps ==
    {"PushBackNoMemory", "InsertNoMemory", "ResizeNoMemory", "ReserveNoMemory",
     "CopyAssignNoMemory"}
\* C12: a PushBack, Insert, Resize, Reserve or copy assignment during which
\* the allocation of the buffer fails throws and leaves the vector with the
\* size, the capacity and the logical sequence it had before the call (and
\* every object and every block as it was).
C12_AllocationFailure ==
    last.op \in NoMemoryOps =>
        /\ last.ret.kind = "bad_alloc"
        /\ After.size_ = Before.size_
        /\ After.capacity_ = Before.capacity_
        /\ ElemsAfter = ElemsBefore
        /\ vec = last.w.vec
        /\ heap = last.w.heap
        /\ fault = "none"

\* The allocation failed in an Insert into a full vector of two differing
\* elements.
C12_Witness ==
    /\ last.op = "InsertNoMemory"
    /\ Before.size_ = 2
    /\ Before.capacity_ = 2
    /\ ElemsBefore[1] # ElemsBefore[2]

\* The allocation failed in the copy that a copy assignment makes of a
\* non-empty vector, for a target that holds other elements.
C12_WitnessAssign ==
    /\ last.op = "CopyAssignNoMemory"
    /\ Elems(last.w, last.u) # <<>>
    /\ ElemsBefore # <<>>
    /\ ElemsBefore # Elems(last.w, last.u)

\* Two sequences of one length with equal elements at every index.
SameSequence(s, t) ==
    /\ Len(s) = Len(t)
    /\ \A k \in 1..Len(s) : s[k] = t[k]
\* C13: a == b is true exactly when a and b have the same size and equal
\* elements at every index below it, whatever their capacities and the
\* slots from the size on hold, and a != b is its negation; the comparison
\* changes nothing.
C13_Equality ==
    last.op = "Compare" =>
        /\ last.cmp.eq <=> SameSequence(ElemsAfter, Elems(World, last.u))
        /\ last.cmp.ne <=> ~last.cmp.eq
        /\ vec = last.w.vec
        /\ heap = last.w.heap
        /\ fault = "none"

\* Two vectors of different capacities and the same non-empty logical
\* sequence compared equal, the first of them with a stale slot that holds
\* a value other than its last element.
C13_Witness ==
    /\ last.op = "Compare"
    /\ last.v # last.u
    /\ last.cmp.eq
    /\ After.size_ >= 1
    /\ After.capacity_ # vec[last.u].capacity_
    /\ After.capacity_ > After.size_
    /\ Slots(World, last.v)[After.size_ + 1] # ElemsAfter[After.size_]

\* Two vectors of one size that differ in one element compared unequal.
C13_WitnessUnequal ==
    /\ last.op = "Compare"
    /\ last.cmp.ne
    /\ After.size_ = 2
    /\ vec[last.u].size_ = 2
    /\ ElemsAfter[1] = Elems(World, last.u)[1]

\* The lexicographic order of two sequences, stated by the first index at
\* which they differ.
LexLess(s, t) ==
    \E k \in 0..Min(Len(s), Len(t)) :
        /\ \A j \in 1..k : s[j] = t[j]
        /\ \/ k = Len(s) /\ k < Len(t)
           \/ k < Len(s) /\ k < Len(t) /\ s[k + 1] < t[k + 1]
ExactlyOne(p, q, r) ==
    \/ p /\ ~q /\ ~r
    \/ ~p /\ q /\ ~r
    \/ ~p /\ ~q /\ r
\* C14: a < b is the lexicographic order of the logical sequences (a strict
\* prefix is less), a > b is b < a, a <= b is not (b < a), a >= b is
\* not (a < b), and exactly one of a < b, a == b, a > b is true.
C14_Ordering ==
    last.op = "Compare" =>
        /\ last.cmp.lt <=> LexLess(ElemsAfter, Elems(World, last.u))
        /\ last.cmp.gt <=> LexLess(Elems(World, last.u), ElemsAfter)
        /\ last.cmp.le <=> ~LexLess(Elems(World, last.u), ElemsAfter)
        /\ last.cmp.ge <=> ~LexLess(ElemsAfter, Elems(World, last.u))
        /\ ExactlyOne(last.cmp.lt, last.cmp.eq, last.cmp.gt)

\* A longer vector was less than a shorter one: <<0, 0>> < <<1>>, or the
\* like.
C14_Witness ==
    /\ last.op = "Compare"
    /\ last.cmp.lt
    /\ After.size_ > vec[last.u].size_
    /\ vec[last.u].size_ >= 1

\* A non-empty strict prefix was less than the vector it is a prefix of.
C14_WitnessPrefix ==
    /\ last.op = "Compare"
    /\ last.cmp.lt
    /\ After.size_ >= 1
    /\ After.size_ < vec[last.u].size_
    /\ ElemsAfter = Take(Elems(World, last.u), After.size_)

\* n times x.
Repeat(n, x) == [k \in 1..n |-> x]
\* C15: SimpleVector(n) has size n, capacity n and n default values;
\* SimpleVector(n, x) has size n, capacity n and n times x; SimpleVector()
\* has size 0 and capacity 0; a vector constructed from a literal of length
\* c has size c, capacity c and the elements of the literal in order.
C15_Constructors ==
    /\ last.op = "SizeConstruct" =>
           /\ After.size_ = last.i
           /\ After.capacity_ = last.i
           /\ ElemsAfter = Repeat(last.i, DefaultValue)
    /\ last.op = "SizeValueConstruct" =>
           /\ After.size_ = last.i
           /\ After.capacity_ = last.i
           /\ ElemsAfter = Repeat(last.i, last.x)
    /\ last.op = "DefaultConstruct" =>
           /\ After.size_ = 0
           /\ After.capacity_ = 0
    /\ last.op = "InitListConstruct" =>
           /\ After.size_ = Len(last.init)
           /\ After.capacity_ = Len(last.init)
           /\ ElemsAfter = last.init
    /\ last.op \in {"SizeConstruct", "SizeValueConstruct", "DefaultConstruct",
                    "InitListConstruct"} =>
           /\ After.alive
           /\ Len(Slots(World, last.v)) = After.capacity_
           /\ fault = "none"

\* A vector of two elements was constructed from a value other than the
\* default.
C15_Witness ==
    /\ last.op = "SizeValueConstruct"
    /\ last.i >= 2
    /\ last.x # DefaultValue

\* A vector was constructed from a literal of two differing elements.
C15_WitnessLiteral ==
    /\ last.op = "InitListConstruct"
    /\ Len(last.init) = 2
    /\ last.init[1] # last.init[2]

\* n PushBack calls of x in a row.
RECURSIVE PushBackTimes(_, _, _, _)
PushBackTimes(w, o, n, x) ==
    IF n = 0 THEN w ELSE PushBackTimes(PushBack(w, o, ByValue(x)), o, n - 1, x)
\* C16: Clear() leaves size 0 and the capacity and every slot of the buffer
\* as they were, so that each of the next PushBack calls, up to as many as
\* the old capacity, leaves the capacity as it was.
C16_Clear ==
    last.op = "Clear" =>
        /\ After.size_ = 0
        /\ After.capacity_ = Before.capacity_
        /\ Slots(World, last.v) = Slots(last.w, last.v)
        /\ \A u \in Vecs \ {last.v} : SameVector(u)
        /\ fault = "none"
        /\ \A n \in 1..Before.capacity_, x \in Vals :
               LET w2 == PushBackTimes(World, last.v, n, x)
               IN /\ w2.vec[last.v].capacity_ = Before.capacity_
                  /\ w2.vec[last.v].size_ = n
                  /\ w2.fault = "none"

\* A Clear of a full vector of two or more elements, one of them other
\* than the default.
C16_Witness ==
    /\ last.op = "Clear"
    /\ Before.size_ >= 2
    /\ Before.size_ = Before.capacity_
    /\ \E k \in 1..Before.size_ : ElemsBefore[k] # DefaultValue

\* C17: a copy construction or a copy assignment from another vector leaves
\* the target with size and capacity both equal to the source's size,
\* whatever capacity the source has and the target had, and leaves the
\* source's size, capacity and elements alone; an assignment of a vector to
\* itself changes nothing.
C17_CopyCapacity ==
    /\ (last.op \in CopyOps /\ last.v # last.u) =>
           /\ After.size_ = last.w.vec[last.u].size_
           /\ After.capacity_ = last.w.vec[last.u].size_
           /\ Len(Slots(World, last.v)) = After.capacity_
           /\ SameVector(last.u)
           /\ Elems(World, last.u) = Elems(last.w, last.u)
           /\ fault = "none"
    /\ (last.op = "CopyAssign" /\ last.v = last.u) =>
           /\ vec = last.w.vec
           /\ heap = last.w.heap
           /\ fault = "none"

\* A copy assignment from a non-empty vector with room left to a vector
\* that had a larger capacity than the source's size.
C17_Witness ==
    /\ last.op = "CopyAssign"
    /\ last.v # last.u
    /\ vec[last.u].size_ >= 1
    /\ vec[last.u].capacity_ > vec[last.u].size_
    /\ Before.capacity_ > vec[last.u].size_

\* An assignment to itself of a non-empty vector with room left.
C17_WitnessSelf ==
    /\ last.op = "CopyAssign"
    /\ last.v = last.u
    /\ After.size_ >= 1
    /\ After.capacity_ > After.size_

\* The live objects that point to block b.
Owners(b) == {o \in Objs : vec[o].alive /\ vec[o].data_ = b}
\* C18: in every reachable state every allocated block is owned by exactly
\* one live object (none is shared, none is left without an owner), every
\* live object with a capacity above 0 owns a live block of as many slots
\* as its capacity and one with capacity 0 owns none, an object that is not
\* live owns nothing, no temporary outlives its call, and no block was
\* released twice.
C18_Ownership ==
    /\ \A b \in BufIds :
           IF heap[b].live THEN Cardinality(Owners(b)) = 1 ELSE Owners(b) = {}
    /\ \A o \in Objs :
           IF vec[o].alive
           THEN IF vec[o].capacity_ > 0
                THEN /\ vec[o].data_ # Null
                     /\ heap[vec[o].data_].live
                     /\ Len(heap[vec[o].data_].cells) = vec[o].capacity_
                ELSE vec[o].data_ = Null
           ELSE vec[o] = NoObject
    /\ ~vec[TempAssign].alive
    /\ ~vec[TempCopy].alive
    /\ fault # "double_free"

\* A copy assignment has released the block the target had, and the target
\* and the source own a block each.
C18_Witness ==
    /\ last.op = "CopyAssign"
    /\ last.v # last.u
    /\ Before.capacity_ >= 1
    /\ After.data_ # Null
    /\ vec[last.u].data_ # Null
    /\ Cardinality({b \in BufIds : heap[b].live}) = 2

\* A vector that owned a block has been destroyed; the other vector is
\* there and owns none, and no block is left.
C18_WitnessDestroy ==
    /\ last.op = "Destroy"
    /\ Before.capacity_ >= 1
    /\ \E u \in Vecs : vec[u].alive /\ vec[u].capacity_ = 0
    /\ \A b \in BufIds : ~heap[b].live

\* The slots first .. lim - 1 of block p.
SlotsOf(p, first, lim) == {<<p, k>> : k \in first..(lim - 1)}
\* C19: an Insert at index i into a vector with size < capacity reads
\* only the slots i .. size - 1 and writes only the slots i .. size of the
\* vector's block (all of them, and slot size is below the capacity),
\* leaves the slots below i and above size as they were, and neither reads
\* nor writes a slot at or beyond the capacity.
C19_InsertInPlace ==
    (last.op = "Insert" /\ Before.size_ < Before.capacity_) =>
        /\ After.data_ = Before.data_
        /\ last.rd = SlotsOf(Before.data_, last.i, Before.size_)
        /\ last.wr = SlotsOf(Before.data_, last.i, Before.size_ + 1)
        /\ \A s \in last.rd \cup last.wr : s[2] < Before.capacity_
        /\ \A k \in 0..(Before.capacity_ - 1) :
               (k < last.i \/ k > Before.size_) =>
                   Slots(World, last.v)[k + 1] = Slots(last.w, last.v)[k + 1]
        /\ fault = "none"

\* An Insert in the middle of a vector that had one slot left, with a slot
\* before the position that holds a value other than the default.
C19_Witness ==
    /\ last.op = "Insert"
    /\ Before.size_ + 1 = Before.capacity_
    /\ last.i >= 1
    /\ last.i < Before.size_
    /\ ElemsBefore[1] # DefaultValue

\* An Insert at the end of a vector that had two slots left, the second
\* of which holds a value other than the default.
C19_WitnessRoom ==
    /\ last.op = "Insert"
    /\ Before.size_ + 2 = Before.capacity_
    /\ last.i = Before.size_
    /\ Slots(last.w, last.v)[Before.capacity_] # DefaultValue

\* The calls whose argument refers to an element of the vector itself.
AliasedOps == {"PushBackAliased", "InsertAliased"}
\* The new slot (index last.i) holds the value the element had at the call.
C20_StoresValueAtCall ==
    last.op \in AliasedOps =>
        /\ After.size_ = Before.size_ + 1
        /\ ElemsAfter[last.i + 1] = last.x
\* The call read no slot of a released block.
C20_NoReleasedRead ==
    last.op \in AliasedOps => fault = "none"
\* C20: v.PushBack(v[j]) and v.Insert(v.begin() + i, v[j]) store, in the
\* new slot (index last.i: the old size for PushBack, i for Insert), the
\* value v[j] had when the call was made (last.x), whether the call shifts
\* in place or reallocates, and read no slot of a block that has been
\* released.
C20_AliasedArgument ==
    /\ C20_StoresValueAtCall
    /\ C20_NoReleasedRead
====
